---- MODULE Spec2Model ----
(***************************************************************************)
(* Model of the turbo-tasks-backend storage engine (backend/storage.rs)    *)
(* and of the cell update operation (backend/operation/update_cell.rs).    *)
(*                                                                         *)
(*  StoreSpec : one InnerStorage driven by add/insert/remove/update and    *)
(*              the read-only calls.                                       *)
(*  Spec      : worker threads running UpdateCellOperation::run against    *)
(*              the sharded Storage.                                       *)
(*  LockSpec  : worker threads using access_mut / access_pair_mut.         *)
(*  FrameSpec : the cell update together with the marking of the tasks    *)
(*              its invalidation call is given.                            *)
(*  ReadSpec  : the cell update together with the readers that wait for   *)
(*              the cell and read it once released.                        *)
(*  CountSpec : one InnerStorage of counters driven by update_count!.      *)
(***************************************************************************)
EXTENDS Integers, FiniteSets, Sequences, TLC

\* ------------------------------------------------------------------------
\* Bounds of the model
\* ------------------------------------------------------------------------
\* INDEX_THRESHOLD is 1024 in storage.rs:19; the model scales it down so that
\* the Plain -> Indexed conversion is reached with a handful of records.
INDEX_THRESHOLD == 3

\* the largest number of records the modelled callers put in one store
MaxRecords == INDEX_THRESHOLD + 1

\* the tasks that read a cell
NumDeps == 2

\* the readers that wait for a cell
NumReaders == 2

\* LockSpec: the worker threads, each making one call
NumWorkers == 2

\* the counters of update_count! are i32 (storage.rs:334); the model keeps
\* CountBits bits of them, two's complement
CountBits == 3

\* the cells of a task: the one a call updates and another one
Cells == {1, 2}

\* the values a cell holds
Contents == {1, 2}

\* the tasks whose cells are updated
TaskIds == {1}

\* the worker threads of ConcSpec: two concurrent calls
Threads == {1, 2}

\* the tasks LockSpec locks: 1 and 3 lie in one shard, 2 in the other
LockTasks == {1, 2, 3}

\* DashMap shards: Storage::new asks for
\* (available_parallelism * 64).next_power_of_two() of them; the model keeps two
Shards == {0, 1}

DepTasks == 1 .. NumDeps

Readers == 1 .. NumReaders

Workers == 1 .. NumWorkers

\* ------------------------------------------------------------------------
\* Keys and values (CachedDataItemKey / CachedDataItemValue)
\* ------------------------------------------------------------------------
CellDataKey(c) == [kind |-> "CellData", cell |-> c, task |-> 0]

InProgressCellKey(c) == [kind |-> "InProgressCell", cell |-> c, task |-> 0]

CellDependentKey(c, d) == [kind |-> "CellDependent", cell |-> c, task |-> d]

DirtyKey == [kind |-> "Dirty", cell |-> 0, task |-> 0]

\* a record kind with an integer value, updated in place under the guard
CountKey == [kind |-> "Count", cell |-> 0, task |-> 0]

\* the counters of CountSpec
CountKeys == {CountKey} \cup {[CountKey EXCEPT !.cell = c] : c \in Cells}

\* the deltas the callers pass
Deltas == {-2, -1, 0, 1, 2}

Keys ==
    {CellDataKey(c) : c \in Cells} \cup {InProgressCellKey(c) : c \in Cells}
        \cup {CellDependentKey(c, d) : c \in Cells, d \in DepTasks} \cup {DirtyKey}

\* The event handle stored in an InProgressCell marker is named by its cell.
ValuesOf(key) ==
    CASE key.kind = "CellData" -> Contents
      [] key.kind = "InProgressCell" -> {key.cell}
      [] OTHER -> {0}

\* Indexed::index for CachedDataItemKey: the grouping value of a key.  The
\* iter_many! macro passes the per-kind constant data::indicies::$key.
index(key) == key.kind

Indices == {index(k) : k \in Keys}

\* Option<T>
None == << >>

Some(v) == << v >>

\* ------------------------------------------------------------------------
\* AutoMap
\* ------------------------------------------------------------------------
EmptyMap == [x \in {} |-> 0]

MapInsert(m, k, v) == [x \in (DOMAIN m) \cup {k} |-> IF x = k THEN v ELSE m[x]]

MapRemove(m, k) == [x \in (DOMAIN m) \ {k} |-> m[x]]

MapGet(m, k) == IF k \in DOMAIN m THEN Some(m[k]) ELSE None

MapIter(m) == {<<k, m[k]>> : k \in DOMAIN m}

\* map.entry(k).or_default()
EntryOrDefault(m, k) == IF k \in DOMAIN m THEN m ELSE MapInsert(m, k, EmptyMap)

\* ------------------------------------------------------------------------
\* InnerStorage
\* ------------------------------------------------------------------------
new == [tag |-> "Plain", plain |-> EmptyMap, indexed |-> EmptyMap]

is_indexed(s) == s.tag = "Indexed"

Redistribute_overwrite(plain, todo, acc) ==
    [i \in {index(k) : k \in todo} |->
        LET key == CHOOSE k \in todo : index(k) = i
        IN  MapInsert(EmptyMap, key, plain[key])]

Redistribute_dirty_misfiled(plain, todo, acc) ==
    LET bucket(k) == IF k.kind = "Dirty" THEN "CellData" ELSE index(k)
    IN  [i \in {bucket(k) : k \in todo} |->
            [k \in {x \in todo : bucket(x) = i} |-> plain[k]]]

Redistribute_one_bucket(plain, todo, acc) ==
    IF todo = {} THEN acc
    ELSE LET i == index(CHOOSE k \in todo : TRUE)
         IN  MapInsert(acc, i, [k \in todo |-> plain[k]])

\* the loop of check_threshold: every (key, value) of the plain map goes to
\* map.entry(key.index()).or_default().insert(key, value)
RECURSIVE Redistribute(_, _, _)
Redistribute(plain, todo, acc) ==
    IF todo = {} THEN acc
    ELSE LET key == CHOOSE k \in todo : TRUE
             i == index(key)
             withEntry == EntryOrDefault(acc, i)
         IN  Redistribute(plain, todo \ {key},
                 [withEntry EXCEPT ![i] = MapInsert(withEntry[i], key, plain[key])])

check_threshold_revert(s) ==
    LET keys == UNION {DOMAIN s.indexed[i] : i \in DOMAIN s.indexed}
    IN  IF s.tag = "Plain" /\ Cardinality(DOMAIN s.plain) >= INDEX_THRESHOLD
        THEN [tag |-> "Indexed", plain |-> EmptyMap,
              indexed |-> Redistribute(s.plain, DOMAIN s.plain, EmptyMap)]
        ELSE IF s.tag = "Indexed" /\ Cardinality(keys) < INDEX_THRESHOLD
        THEN [tag |-> "Plain", indexed |-> EmptyMap,
              plain |-> [k \in keys |-> s.indexed[index(k)][k]]]
        ELSE s

check_threshold_above(s) ==
    IF s.tag = "Plain" /\ Cardinality(DOMAIN s.plain) > INDEX_THRESHOLD
    THEN [tag |-> "Indexed", plain |-> EmptyMap,
          indexed |-> Redistribute(s.plain, DOMAIN s.plain, EmptyMap)]
    ELSE s

\* lines 44-56: a Plain store of INDEX_THRESHOLD records or more is rebuilt
check_threshold(s) ==
    IF s.tag = "Plain" /\ Cardinality(DOMAIN s.plain) >= INDEX_THRESHOLD
    THEN [tag |-> "Indexed", plain |-> EmptyMap,
          indexed |-> Redistribute(s.plain, DOMAIN s.plain, EmptyMap)]
    ELSE s

\* get_map_mut as a state transformer: the storage after the threshold check
\* and after the bucket of the key was created
get_map_mut(s, key) ==
    LET c == check_threshold(s)
    IN  IF c.tag = "Plain" THEN c
        ELSE [c EXCEPT !.indexed = EntryOrDefault(c.indexed, index(key))]

\* the map get_map_mut hands out, and the storage with that map replaced
MapOf(s, key) == IF s.tag = "Plain" THEN s.plain ELSE s.indexed[index(key)]

WithMap(s, key, m) ==
    IF s.tag = "Plain" THEN [s EXCEPT !.plain = m]
    ELSE [s EXCEPT !.indexed[index(key)] = m]

\* Option<&AutoMap>
get_map(s, key) ==
    IF s.tag = "Plain" THEN Some(s.plain)
    ELSE MapGet(s.indexed, index(key))

index_map(s, i) ==
    IF s.tag = "Plain" THEN Some(s.plain)
    ELSE MapGet(s.indexed, i)

add_overwrite(s, key, value) ==
    LET s1 == get_map_mut(s, key)
        m == MapOf(s1, key)
    IN  [st |-> WithMap(s1, key, MapInsert(m, key, value)), out |-> key \notin DOMAIN m]

add_check_first(s, key, value) ==
    IF get_map(s, key) # None /\ key \in DOMAIN get_map(s, key)[1]
    THEN [st |-> s, out |-> FALSE]
    ELSE LET s1 == get_map_mut(s, key)
         IN  [st |-> WithMap(s1, key, MapInsert(MapOf(s1, key), key, value)),
              out |-> TRUE]

\* the mutating calls return the new storage and the call's result
add(s, key, value) ==
    LET s1 == get_map_mut(s, key)
        m == MapOf(s1, key)
    IN  IF key \in DOMAIN m THEN [st |-> s1, out |-> FALSE]
        ELSE [st |-> WithMap(s1, key, MapInsert(m, key, value)), out |-> TRUE]

insert(s, key, value) ==
    LET s1 == get_map_mut(s, key)
        m == MapOf(s1, key)
    IN  [st |-> WithMap(s1, key, MapInsert(m, key, value)), out |-> MapGet(m, key)]

remove_peek(s, key) ==
    LET s1 == get_map_mut(s, key)
    IN  [st |-> s1, out |-> MapGet(MapOf(s1, key), key)]

remove(s, key) ==
    LET s1 == get_map_mut(s, key)
        m == MapOf(s1, key)
    IN  [st |-> WithMap(s1, key, MapRemove(m, key)), out |-> MapGet(m, key)]

get(s, key) ==
    LET om == get_map(s, key)
    IN  IF om = None THEN None ELSE MapGet(om[1], key)

has_key(s, key) ==
    LET om == get_map(s, key)
    IN  IF om = None THEN FALSE ELSE key \in DOMAIN om[1]

iter(s, i) ==
    LET om == index_map(s, i)
    IN  IF om = None THEN {} ELSE MapIter(om[1])

\* iter_all as the bag of the pairs it yields: pair |-> number of times
iter_all(s) ==
    IF s.tag = "Plain" THEN [p \in MapIter(s.plain) |-> 1]
    ELSE LET pairs == UNION {MapIter(s.indexed[i]) : i \in DOMAIN s.indexed}
         IN  [p \in pairs |->
                 Cardinality({i \in DOMAIN s.indexed : p \in MapIter(s.indexed[i])})]

\* the closures handed to update: replace by a value, remove, keep
UpdateFns(key) == {[f |-> "set", v |-> v] : v \in ValuesOf(key)} \cup
                  {[f |-> "clear", v |-> 0], [f |-> "keep", v |-> 0]}

\* the range of the counters
IntMin == 0 - 2 ^ (CountBits - 1)

IntMax == 2 ^ (CountBits - 1) - 1

\* old + update leaves the range: the addition panics in a build with overflow
\* checks and wraps around in a build without
Overflows(delta, old) == old # None /\ old[1] + delta \notin IntMin .. IntMax

WrappingAdd(a, b) == ((a + b - IntMin) % 2 ^ CountBits) + IntMin

\* lines 334-343: the closure update_count! hands to update!, its result ...
CountClosure(delta, old) ==
    IF old # None
    THEN LET next == WrappingAdd(old[1], delta)
         IN  IF next # 0 THEN Some(next) ELSE None
    ELSE IF delta # 0 THEN Some(delta) ELSE None

\* ... and the state_change flag it sets
StateChange(delta, old) ==
    IF old # None
    THEN LET next == WrappingAdd(old[1], delta)
         IN  (old[1] <= 0 /\ next > 0) \/ (old[1] > 0 /\ next <= 0)
    ELSE delta > 0

ApplyFn(fn, old) ==
    CASE fn.f = "set" -> Some(fn.v)
      [] fn.f = "clear" -> None
      [] fn.f = "count" -> CountClosure(fn.v, old)
      [] OTHER -> old

update_keep_on_none(s, key, fn) ==
    LET s1 == get_map_mut(s, key)
        m == MapOf(s1, key)
        r == ApplyFn(fn, MapGet(m, key))
    IN  IF r # None THEN WithMap(s1, key, MapInsert(m, key, r[1])) ELSE s1

\* update(key, f): the closure f maps Option<Value> to Option<Value>
update(s, key, fn) ==
    LET s1 == get_map_mut(s, key)
        m == MapOf(s1, key)
    IN  IF key \in DOMAIN m
        THEN LET r == ApplyFn(fn, Some(m[key]))
             IN  IF r # None THEN WithMap(s1, key, MapInsert(m, key, r[1]))
                 ELSE WithMap(s1, key, MapRemove(m, key))
        ELSE LET r == ApplyFn(fn, None)
             IN  IF r # None THEN WithMap(s1, key, MapInsert(m, key, r[1]))
                 ELSE s1

\* the arguments f is called with by update(key, f), in call order: one call
\* in the branch of a present key (line 148), one in the other (line 153)
update_calls(s, key, fn) ==
    LET s1 == get_map_mut(s, key)
        m == MapOf(s1, key)
    IN  IF key \in DOMAIN m THEN << Some(m[key]) >> ELSE << None >>

\* update_count!(task, key, delta) where the addition does not panic: the
\* storage after update! and the state_change flag
update_count(s, key, delta) ==
    LET fn == [f |-> "count", v |-> delta]
    IN  [st |-> update(s, key, fn),
         out |-> StateChange(delta, update_calls(s, key, fn)[1])]

has(s, key, value) ==
    LET stored == get(s, key)
    IN  IF stored # None THEN stored[1] = value ELSE FALSE

\* ------------------------------------------------------------------------
\* StoreSpec: one InnerStorage, one call per step
\* ------------------------------------------------------------------------
VARIABLES store, ret, flat, storage, shardLock, pc, frame, listening

storeVars == <<store, ret, flat>>

cellVars == <<storage, shardLock, pc, frame, listening>>

vars == <<storage, shardLock, pc, frame, listening, store, ret, flat>>

\* the number of records a storage holds
RecordCount(s) ==
    IF s.tag = "Plain" THEN Cardinality(DOMAIN s.plain)
    ELSE Cardinality(UNION {DOMAIN s.indexed[i] : i \in DOMAIN s.indexed})

\* a record may be written under key: the key is present or there is room
HasRoom(s, key) == has_key(s, key) \/ RecordCount(s) < MaxRecords

\* the keys the calls of StoreSpec use: the kinds whose value is plain data
\* (the value of an InProgressCell marker is an event handle), with the
\* dependents of one cell
StoreKeys ==
    {k \in Keys : /\ k.kind # "InProgressCell"
                  /\ k.kind = "CellDependent" => k.cell = 1}

\* what a caller can see of a storage through get, has_key and iter_all
Observe(s) ==
    [get |-> [k \in Keys |-> get(s, k)],
     has_key |-> {k \in Keys : has_key(s, k)},
     iter_all |-> iter_all(s)]

\* The reference the spec compares the store with: a single flat map from key
\* to value, and the results of the keyed calls on it.
FlatAdd(m, k, v) ==
    IF k \in DOMAIN m THEN [st |-> m, out |-> FALSE]
    ELSE [st |-> MapInsert(m, k, v), out |-> TRUE]

FlatInsert(m, k, v) == [st |-> MapInsert(m, k, v), out |-> MapGet(m, k)]

FlatRemove(m, k) == [st |-> MapRemove(m, k), out |-> MapGet(m, k)]

FlatUpdate(m, k, fn) ==
    LET r == ApplyFn(fn, MapGet(m, k))
    IN  [st |-> IF r # None THEN MapInsert(m, k, r[1]) ELSE MapRemove(m, k),
         out |-> << MapGet(m, k) >>]

FlatHas(m, k, v) == k \in DOMAIN m /\ m[k] = v

\* no insert of an absent key was just undone
NoUndo == [rep |-> "none", pre |-> 0]

\* The record of the last call: the call (op, key, val), its result (out),
\* whether it converted the store (conv), the result of the same call on the
\* flat map (ref), what the store showed before the call (pre) and, for a
\* remove that follows the insert of the same, absent key, what the store
\* showed before that insert (undo).
NoCall ==
    [op |-> "none", key |-> DirtyKey, val |-> 0, out |-> 0, conv |-> FALSE,
     ref |-> 0, pre |-> 0, undo |-> NoUndo]

StoreInit == store = new /\ ret = NoCall /\ flat = EmptyMap

StoreAdd ==
    \E k \in StoreKeys : \E v \in ValuesOf(k) :
        LET r == add(store, k, v)
        IN  /\ HasRoom(store, k)
            /\ store' = r.st
            /\ flat' = FlatAdd(flat, k, v).st
            /\ ret' = [op |-> "add", key |-> k, val |-> v, out |-> r.out,
                       conv |-> ~is_indexed(store) /\ is_indexed(r.st),
                       ref |-> FlatAdd(flat, k, v).out, pre |-> Observe(store),
                       undo |-> NoUndo]

StoreInsert ==
    \E k \in StoreKeys : \E v \in ValuesOf(k) :
        LET r == insert(store, k, v)
        IN  /\ HasRoom(store, k)
            /\ store' = r.st
            /\ flat' = FlatInsert(flat, k, v).st
            /\ ret' = [op |-> "insert", key |-> k, val |-> v, out |-> r.out,
                       conv |-> ~is_indexed(store) /\ is_indexed(r.st),
                       ref |-> FlatInsert(flat, k, v).out, pre |-> Observe(store),
                       undo |-> NoUndo]

StoreRemove ==
    \E k \in StoreKeys :
        LET r == remove(store, k)
            undoes == ret.op = "insert" /\ ret.key = k /\ ret.out = None
        IN  /\ store' = r.st
            /\ flat' = FlatRemove(flat, k).st
            /\ ret' = [op |-> "remove", key |-> k, val |-> 0, out |-> r.out,
                       conv |-> ~is_indexed(store) /\ is_indexed(r.st),
                       ref |-> FlatRemove(flat, k).out, pre |-> Observe(store),
                       undo |-> IF undoes
                                THEN [rep |-> IF ret.conv THEN "Converted"
                                              ELSE store.tag,
                                      pre |-> ret.pre]
                                ELSE NoUndo]

StoreUpdate ==
    \E k \in StoreKeys : \E fn \in UpdateFns(k) :
        /\ HasRoom(store, k)
        /\ store' = update(store, k, fn)
        /\ flat' = FlatUpdate(flat, k, fn).st
        /\ ret' = [op |-> "update", key |-> k, val |-> fn,
                   out |-> update_calls(store, k, fn),
                   conv |-> ~is_indexed(store) /\ is_indexed(store'),
                   ref |-> FlatUpdate(flat, k, fn).out, pre |-> Observe(store),
                   undo |-> NoUndo]

StoreGet ==
    \E k \in StoreKeys :
        /\ ret' = [op |-> "get", key |-> k, val |-> 0, out |-> get(store, k),
                   conv |-> FALSE, ref |-> MapGet(flat, k), pre |-> Observe(store),
                   undo |-> NoUndo]
        /\ UNCHANGED <<store, flat>>

StoreHasKey ==
    \E k \in StoreKeys :
        /\ ret' = [op |-> "has_key", key |-> k, val |-> 0, out |-> has_key(store, k),
                   conv |-> FALSE, ref |-> k \in DOMAIN flat, pre |-> Observe(store),
                   undo |-> NoUndo]
        /\ UNCHANGED <<store, flat>>

StoreHas ==
    \E k \in StoreKeys : \E v \in ValuesOf(k) :
        /\ ret' = [op |-> "has", key |-> k, val |-> v, out |-> has(store, k, v),
                   conv |-> FALSE, ref |-> FlatHas(flat, k, v), pre |-> Observe(store),
                   undo |-> NoUndo]
        /\ UNCHANGED <<store, flat>>

StoreIter ==
    \E i \in {index(k) : k \in StoreKeys} :
        /\ ret' = [op |-> "iter", key |-> DirtyKey, val |-> i, out |-> iter(store, i),
                   conv |-> FALSE, ref |-> 0, pre |-> Observe(store), undo |-> NoUndo]
        /\ UNCHANGED <<store, flat>>

StoreIterAll ==
    /\ ret' = [op |-> "iter_all", key |-> DirtyKey, val |-> 0, out |-> iter_all(store),
               conv |-> FALSE, ref |-> MapIter(flat), pre |-> Observe(store),
               undo |-> NoUndo]
    /\ UNCHANGED <<store, flat>>

StoreNext ==
    \/ StoreAdd
    \/ StoreInsert
    \/ StoreRemove
    \/ StoreUpdate
    \/ StoreGet
    \/ StoreHasKey
    \/ StoreHas
    \/ StoreIter
    \/ StoreIterAll

\* ------------------------------------------------------------------------
\* Storage: the sharded DashMap of InnerStorage, and its write guards
\* ------------------------------------------------------------------------
\* DashMap::determine_map: the shard a key hashes to
ShardOf(task) == task % Cardinality(Shards)

GuardFree_global(task) == \A sh \in Shards : shardLock[sh] = 0

\* the shard lock a guard of `task` needs is free
GuardFree(task) == shardLock[ShardOf(task)] = 0

\* map.entry(key), vacant => insert(InnerStorage::new())
EntryOrNew(m, task) == IF task \in DOMAIN m THEN m ELSE MapInsert(m, task, new)

access_mut_unguarded(t, task) ==
    /\ shardLock' = [shardLock EXCEPT ![ShardOf(task)] = t]
    /\ storage' = EntryOrNew(storage, task)

\* Storage::access_mut(key) by thread t: lock the shard of the key, create the
\* InnerStorage when the entry is vacant, hand out the guard
access_mut(t, task) ==
    /\ GuardFree(task)
    /\ shardLock' = [shardLock EXCEPT ![ShardOf(task)] = t]
    /\ storage' = EntryOrNew(storage, task)

\* drop(StorageWriteGuard) by thread t
drop_guard(t, task) ==
    shardLock' = [shardLock EXCEPT ![ShardOf(task)] = 0]

HoldsGuard(t, task) == shardLock[ShardOf(task)] = t

\* ------------------------------------------------------------------------
\* Macros of storage.rs, as used by update_cell.rs
\* ------------------------------------------------------------------------
get_many_CellDependent_any_cell(s, cell) ==
    {p[1].task : p \in {q \in iter(s, "CellDependent") : q[1].kind = "CellDependent"}}

\* get_many!(task, CellDependent { cell: dependent_cell, task } _value
\*           if dependent_cell == cell => task)
get_many_CellDependent(s, cell) ==
    {p[1].task : p \in {q \in iter(s, "CellDependent") :
                            q[1].kind = "CellDependent" /\ q[1].cell = cell}}

\* remove!(task, InProgressCell { cell })
remove_InProgressCell(s, cell) == remove(s, InProgressCellKey(cell))

\* ------------------------------------------------------------------------
\* Spec: threads running UpdateCellOperation::run
\* ------------------------------------------------------------------------
\* CellContent(Option<..>)
CellContents == {None} \cup {Some(v) : v \in Contents}

\* the locals of run, and what the call saw at its write: the dependents of
\* the cell (atWrite), the Dirty record (dirtyAtWrite), the readers that were
\* blocked on the marker (woken, kept until the short-circuit decision)
IdleFrame ==
    [task |-> 0, cell |-> 0, content |-> None, old_content |-> None,
     dependent |-> {}, calls |-> 0, recomputed |-> FALSE, woken |-> {},
     atWrite |-> {}, dirtyAtWrite |-> FALSE]

\* A reader is idle (<<0, 0>>), blocked on the event of the marker of a cell
\* (<<task, cell>>, or <<task, cell, "wait">> when it reads the cell again once
\* it is released), released and about to read (<<task, cell, "retry", c>>,
\* c the content of the latest write of the cell, made by the releasing call
\* or after it) or done reading (<<task, cell, "read", c, seen>>).
\* the readers blocked on the event of the marker of (task, cell)
Waiters(task, cell) ==
    {r \in Readers : listening[r] \in {<<task, cell>>, <<task, cell, "wait">>}}

\* a blocked reader after the event was notified by a call that wrote content
Woken(l, content) ==
    IF Len(l) = 2 THEN <<0, 0>> ELSE <<l[1], l[2], "retry", content>>

\* the readers released for (task, cell) that have not read yet learn of a
\* later write of the cell
Rewritten(l, task, cell, content) ==
    IF Len(l) = 4 /\ l[1] = task /\ l[2] = cell
    THEN <<task, cell, "retry", content>> ELSE l

\* all records a store of the storage holds, by all tasks
TotalRecords ==
    LET RECURSIVE Sum(_)
        Sum(ts) == IF ts = {} THEN 0
                   ELSE LET x == CHOOSE y \in ts : TRUE
                        IN  RecordCount(storage[x]) + Sum(ts \ {x})
    IN  Sum(DOMAIN storage)

CellInit ==
    /\ storage = EmptyMap
    /\ shardLock = [s \in Shards |-> 0]
    /\ pc = [t \in Threads |-> "idle"]
    /\ frame = [t \in Threads |-> IdleFrame]
    /\ listening = [r \in Readers |-> <<0, 0>>]

Init == CellInit /\ StoreInit

\* a thread enters UpdateCellOperation::run(task, cell, content, ctx)
Call(t, cells) ==
    /\ pc[t] = "idle"
    /\ \E task \in TaskIds, cell \in cells, content \in CellContents :
          frame' = [frame EXCEPT ![t] =
                       [IdleFrame EXCEPT !.task = task, !.cell = cell, !.content = content]]
    /\ pc' = [pc EXCEPT ![t] = "task"]
    /\ UNCHANGED <<storage, shardLock, listening>>

\* line 15: let mut task = ctx.task(task)
CtxTask(t) ==
    /\ pc[t] = "task"
    /\ access_mut(t, frame[t].task)
    /\ pc' = [pc EXCEPT ![t] = "apply"]
    /\ UNCHANGED <<frame, listening>>

\* the tasks with a CellDependent record for the cell
DependentsOf(s, cell) == {d \in DepTasks : has_key(s, CellDependentKey(cell, d))}

Apply_always_remove(t) ==
    /\ pc[t] = "apply"
    /\ LET f == frame[t]
           s == storage[f.task]
           r == remove(s, CellDataKey(f.cell))
       IN  /\ storage' = [storage EXCEPT ![f.task] = r.st]
           /\ frame' = [frame EXCEPT ![t].old_content = r.out,
                                      ![t].atWrite = DependentsOf(s, f.cell),
                                      ![t].dirtyAtWrite = has_key(s, DirtyKey)]
           /\ listening' = [x \in Readers |->
                                Rewritten(listening[x], f.task, f.cell, f.content)]
    /\ pc' = [pc EXCEPT ![t] = "release"]
    /\ UNCHANGED shardLock

\* lines 16-23: insert or remove the CellData record, keeping the old content
Apply(t) ==
    /\ pc[t] = "apply"
    /\ LET f == frame[t]
           s == storage[f.task]
           r == IF f.content # None
                THEN insert(s, CellDataKey(f.cell), f.content[1])
                ELSE remove(s, CellDataKey(f.cell))
       IN  /\ f.content # None => HasRoom(s, CellDataKey(f.cell))
           /\ storage' = [storage EXCEPT ![f.task] = r.st]
           /\ frame' = [frame EXCEPT ![t].old_content = r.out,
                                      ![t].atWrite = DependentsOf(s, f.cell),
                                      ![t].dirtyAtWrite = has_key(s, DirtyKey)]
           /\ listening' = [x \in Readers |->
                                Rewritten(listening[x], f.task, f.cell, f.content)]
    /\ pc' = [pc EXCEPT ![t] = "release"]
    /\ UNCHANGED shardLock

ReleaseWaiters_notify_one(t) ==
    /\ pc[t] = "release"
    /\ LET f == frame[t]
           r == remove_InProgressCell(storage[f.task], f.cell)
           first == IF Waiters(f.task, f.cell) = {} THEN 0
                    ELSE CHOOSE x \in Waiters(f.task, f.cell) : TRUE
       IN  /\ storage' = [storage EXCEPT ![f.task] = r.st]
           /\ IF r.out # None
              THEN /\ listening' = [x \in Readers |->
                                       IF x = first THEN Woken(listening[x], f.content)
                                       ELSE listening[x]]
                   /\ frame' = [frame EXCEPT ![t].woken = Waiters(f.task, f.cell)]
              ELSE UNCHANGED <<listening, frame>>
    /\ pc' = [pc EXCEPT ![t] = "decide"]
    /\ UNCHANGED shardLock

\* lines 25-27: remove the InProgressCell marker, notify(usize::MAX)
ReleaseWaiters(t) ==
    /\ pc[t] = "release"
    /\ LET f == frame[t]
           r == remove_InProgressCell(storage[f.task], f.cell)
       IN  /\ storage' = [storage EXCEPT ![f.task] = r.st]
           /\ IF r.out # None
              THEN /\ listening' = [x \in Readers |->
                                       IF x \in Waiters(f.task, f.cell)
                                       THEN Woken(listening[x], f.content)
                                       ELSE listening[x]]
                   /\ frame' = [frame EXCEPT ![t].woken = Waiters(f.task, f.cell)]
              ELSE UNCHANGED <<listening, frame>>
    /\ pc' = [pc EXCEPT ![t] = "decide"]
    /\ UNCHANGED shardLock

Recomputed_ignores_dirty(s, old_content) == old_content = None

Recomputed_dirty(s, old_content) == old_content = None /\ has_key(s, DirtyKey)

\* line 29: old_content.is_none() && !task.has_key(&Dirty {})
Recomputed(s, old_content) == old_content = None /\ ~has_key(s, DirtyKey)

\* lines 29-38: the short circuit; drop(task) and return when recomputed
Decide(t) ==
    /\ pc[t] = "decide"
    /\ LET f == frame[t]
           recomputed == Recomputed(storage[f.task], f.old_content)
       IN  /\ frame' = [frame EXCEPT ![t].recomputed = recomputed, ![t].woken = {}]
           /\ IF recomputed
              THEN /\ drop_guard(t, f.task)
                   /\ pc' = [pc EXCEPT ![t] = "return"]
              ELSE /\ pc' = [pc EXCEPT ![t] = "gather"]
                   /\ UNCHANGED shardLock
    /\ UNCHANGED <<storage, listening>>

Gather_take(t) ==
    /\ pc[t] = "gather"
    /\ LET f == frame[t]
           s == storage[f.task]
           found == get_many_CellDependent(s, f.cell)
           kept == [k \in {x \in Keys : has_key(s, x)} \
                            {CellDependentKey(f.cell, d) : d \in found} |-> get(s, k)[1]]
       IN  /\ frame' = [frame EXCEPT ![t].dependent = found]
           /\ storage' = [storage EXCEPT ![f.task] =
                              IF s.tag = "Plain" THEN [s EXCEPT !.plain = kept]
                              ELSE [s EXCEPT !.indexed =
                                       Redistribute(kept, DOMAIN kept, EmptyMap)]]
    /\ pc' = [pc EXCEPT ![t] = "drop"]
    /\ UNCHANGED <<shardLock, listening>>

\* lines 40-45: let dependent = get_many!(...)
Gather(t) ==
    /\ pc[t] = "gather"
    /\ frame' = [frame EXCEPT ![t].dependent =
                    get_many_CellDependent(storage[frame[t].task], frame[t].cell)]
    /\ pc' = [pc EXCEPT ![t] = "drop"]
    /\ UNCHANGED <<storage, shardLock, listening>>

DropTask_keep_guard(t) ==
    /\ pc[t] = "drop"
    /\ pc' = [pc EXCEPT ![t] = "invalidate"]
    /\ UNCHANGED <<storage, shardLock, frame, listening>>

\* lines 47-48: drop(task)
DropTask(t) ==
    /\ pc[t] = "drop"
    /\ drop_guard(t, frame[t].task)
    /\ pc' = [pc EXCEPT ![t] = "invalidate"]
    /\ UNCHANGED <<storage, frame, listening>>

Invalidate_skip_empty(t) ==
    /\ pc[t] = "invalidate"
    /\ frame' = [frame EXCEPT ![t].calls = IF frame[t].dependent = {} THEN @ ELSE @ + 1]
    /\ pc' = [pc EXCEPT ![t] = "called"]
    /\ UNCHANGED <<storage, shardLock, listening>>

\* line 50: InvalidateOperation::run(dependent, ctx), and return
Invalidate(t) ==
    /\ pc[t] = "invalidate"
    /\ frame' = [frame EXCEPT ![t].calls = @ + 1]
    /\ pc' = [pc EXCEPT ![t] = "called"]
    /\ UNCHANGED <<storage, shardLock, listening>>

\* run returns
Return(t) ==
    /\ pc[t] \in {"return", "called"}
    /\ frame' = [frame EXCEPT ![t] = IdleFrame]
    /\ pc' = [pc EXCEPT ![t] = "idle"]
    /\ UNCHANGED <<storage, shardLock, listening>>

\* The collaborators that put the other records into a task's store.  Each
\* takes the task's write guard for the whole of its critical section.
EnvAdd(task, key, value) ==
    /\ GuardFree(task)
    /\ task \in DOMAIN storage
    /\ ~has_key(storage[task], key)
    /\ RecordCount(storage[task]) < MaxRecords
    /\ storage' = [storage EXCEPT ![task] = add(storage[task], key, value).st]
    /\ UNCHANGED <<shardLock, pc, frame, listening>>

AddDependent(cells) == \E task \in TaskIds, c \in cells, d \in DepTasks :
                          EnvAdd(task, CellDependentKey(c, d), 0)

MarkDirty == \E task \in TaskIds : EnvAdd(task, DirtyKey, 0)

StartCell(cells) == \E task \in TaskIds, c \in cells : EnvAdd(task, InProgressCellKey(c), c)

\* a reader finds the marker of (task, cell) and blocks on its event
Listen(r) ==
    /\ listening[r] = <<0, 0>>
    /\ \E task \in DOMAIN storage, c \in Cells :
          /\ GuardFree(task)
          /\ has_key(storage[task], InProgressCellKey(c))
          /\ listening' = [listening EXCEPT ![r] = <<task, c>>]
    /\ UNCHANGED <<storage, shardLock, pc, frame>>

\* a reader that will read the cell again finds the marker and blocks
ListenRetry(r) ==
    /\ listening[r] = <<0, 0>>
    /\ \E task \in DOMAIN storage, c \in Cells :
          /\ GuardFree(task)
          /\ has_key(storage[task], InProgressCellKey(c))
          /\ listening' = [listening EXCEPT ![r] = <<task, c, "wait">>]
    /\ UNCHANGED <<storage, shardLock, pc, frame>>

\* a released reader takes the task's write guard and reads the cell
ReadCell(r) ==
    /\ Len(listening[r]) = 4
    /\ LET l == listening[r]
       IN  /\ GuardFree(l[1])
           /\ listening' = [listening EXCEPT ![r] =
                  <<l[1], l[2], "read", l[4], get(storage[l[1]], CellDataKey(l[2]))>>]
    /\ UNCHANGED <<storage, shardLock, pc, frame>>

\* the reader goes on with what it read
ReaderDone(r) ==
    /\ Len(listening[r]) = 5
    /\ listening' = [listening EXCEPT ![r] = <<0, 0>>]
    /\ UNCHANGED <<storage, shardLock, pc, frame>>

CellNext(threads, cells) ==
    \/ \E t \in threads :
          \/ Call(t, cells)
          \/ CtxTask(t)
          \/ Apply(t)
          \/ ReleaseWaiters(t)
          \/ Decide(t)
          \/ Gather(t)
          \/ DropTask(t)
          \/ Invalidate(t)
          \/ Return(t)
    \/ AddDependent(cells)
    \/ MarkDirty
    \/ StartCell(cells)
    \/ \E r \in Readers : Listen(r)

\* Spec: one worker thread, all cells
Next == CellNext({1}, Cells) /\ UNCHANGED storeVars

Spec == Init /\ [][Next]_vars

\* ConcSpec: all worker threads, updating the first cell
ConcNext == CellNext(Threads, {1}) /\ UNCHANGED storeVars

ConcSpec == Init /\ [][ConcNext]_vars

\* CountSpec: one InnerStorage of counters, one update_count! per step
\* update_count! returns
UpdateCount ==
    /\ ret.op # "panicked"
    /\ \E k \in CountKeys, delta \in Deltas :
          LET r == update_count(store, k, delta)
          IN  /\ store' = r.st
              /\ ret' = [op |-> "update_count", key |-> k, val |-> delta,
                         out |-> r.out,
                         conv |-> ~is_indexed(store) /\ is_indexed(r.st),
                         ref |-> 0, pre |-> get(store, k), undo |-> NoUndo]
    /\ UNCHANGED flat

\* old + update panics in a build with overflow checks: the call does not
\* return and the thread unwinds out of update, after get_map_mut and after
\* take(value); the model makes no further call on this store
UpdateCountPanic ==
    /\ ret.op # "panicked"
    /\ \E k \in CountKeys, delta \in Deltas :
          /\ Overflows(delta, get(store, k))
          /\ store' = get_map_mut(store, k)
          /\ ret' = [op |-> "panicked", key |-> k, val |-> delta, out |-> FALSE,
                     conv |-> ~is_indexed(store) /\ is_indexed(store'),
                     ref |-> 0, pre |-> get(store, k), undo |-> NoUndo]
    /\ UNCHANGED flat

CountNext == (UpdateCount \/ UpdateCountPanic) /\ UNCHANGED cellVars

CountSpec == Init /\ [][CountNext]_vars

\* FrameSpec: the cell update with the invalidation it calls.
\* InvalidateOperation marks each task it is given as stale: under the task's
\* write guard it adds the Dirty record to the task's store.
RECURSIVE MakeDirty(_, _)
MakeDirty(m, tasks) ==
    IF tasks = {} THEN m
    ELSE LET d == CHOOSE x \in tasks : TRUE
             m1 == EntryOrNew(m, d)
         IN  MakeDirty([m1 EXCEPT ![d] = add(m1[d], DirtyKey, 0).st], tasks \ {d})

\* line 50 with the effect of the callee: InvalidateOperation::run(dependent,
\* ctx) marks the dependents; the caller holds no guard (line 47)
InvalidateRun(t) ==
    /\ pc[t] = "invalidate"
    /\ \A d \in frame[t].dependent : GuardFree(d)
    /\ storage' = MakeDirty(storage, frame[t].dependent)
    /\ frame' = [frame EXCEPT ![t].calls = @ + 1]
    /\ pc' = [pc EXCEPT ![t] = "called"]
    /\ UNCHANGED <<shardLock, listening>>

\* a task that was marked is executed again: its Dirty record is removed
ClearDirty ==
    \E task \in DOMAIN storage :
        /\ GuardFree(task)
        /\ has_key(storage[task], DirtyKey)
        /\ storage' = [storage EXCEPT ![task] = remove(storage[task], DirtyKey).st]
        /\ UNCHANGED <<shardLock, pc, frame, listening>>

FrameNext ==
    /\ \/ \E t \in {1} :
             \/ Call(t, Cells)
             \/ CtxTask(t)
             \/ Apply(t)
             \/ ReleaseWaiters(t)
             \/ Decide(t)
             \/ Gather(t)
             \/ DropTask(t)
             \/ InvalidateRun(t)
             \/ Return(t)
       \/ AddDependent(Cells)
       \/ MarkDirty
       \/ ClearDirty
       \/ StartCell({1})
    /\ UNCHANGED storeVars

FrameSpec == Init /\ [][FrameNext]_vars

\* ReadSpec: the worker threads updating the first cell, and the readers that
\* wait for it and read it when released
RunSteps(threads, cells) ==
    \E t \in threads :
        \/ Call(t, cells)
        \/ CtxTask(t)
        \/ Apply(t)
        \/ ReleaseWaiters(t)
        \/ Decide(t)
        \/ Gather(t)
        \/ DropTask(t)
        \/ Invalidate(t)
        \/ Return(t)

ReadNext ==
    /\ \/ RunSteps(Threads, {1})
       \/ StartCell({1})
       \/ \E r \in Readers : ListenRetry(r)
       \/ \E r \in Readers : ReadCell(r)
       \/ \E r \in Readers : ReaderDone(r)
    /\ UNCHANGED storeVars

ReadSpec == Init /\ [][ReadNext]_vars

StoreSpec == Init /\ [][StoreNext /\ UNCHANGED cellVars]_vars

\* ------------------------------------------------------------------------
\* LockSpec: workers taking write guards with access_mut and access_pair_mut
\* ------------------------------------------------------------------------
LockIdle ==
    [op |-> "none", task |-> 0, key1 |-> 0, key2 |-> 0, val |-> None, blockers |-> {}]

\* the tasks worker w holds a write guard for
HeldTasks(w) ==
    CASE pc[w] \in {"read", "write", "held"} -> {frame[w].task}
      [] pc[w] = "pair_second" -> {frame[w].task}
      [] pc[w] = "pair_insert" -> {frame[w].key1, frame[w].key2}
      [] pc[w] = "pair_held" -> {frame[w].key1, frame[w].key2}
      [] OTHER -> {}

LockInit ==
    /\ storage = EmptyMap
    /\ shardLock = [s \in Shards |-> 0]
    /\ pc = [w \in Workers |-> "idle"]
    /\ frame = [w \in Workers |-> LockIdle]
    /\ listening = [r \in Readers |-> <<0, 0>>]
    /\ StoreInit

\* a worker starts storage.access_mut(task) to increment the counter
BeginIncrement(w) ==
    /\ pc[w] = "idle"
    /\ \E task \in LockTasks :
          frame' = [frame EXCEPT ![w].op = "increment", ![w].task = task,
                                 ![w].key1 = 0, ![w].key2 = 0, ![w].val = None,
                                 ![w].blockers = {}]
    /\ pc' = [pc EXCEPT ![w] = "acquire"]
    /\ UNCHANGED <<storage, shardLock, listening>>

\* access_mut returns the guard
AccessMut(w) ==
    /\ pc[w] \in {"acquire", "parked"}
    /\ access_mut(w, frame[w].task)
    /\ pc' = [pc EXCEPT ![w] = "read"]
    /\ UNCHANGED <<frame, listening>>

\* access_mut finds the lock taken and blocks the thread; the tasks other
\* workers hold a guard for at that moment are kept in the frame
Park(w) ==
    /\ pc[w] = "acquire"
    /\ ~GuardFree(frame[w].task)
    /\ frame' = [frame EXCEPT ![w].blockers =
                    UNION {HeldTasks(u) : u \in Workers \ {w}}]
    /\ pc' = [pc EXCEPT ![w] = "parked"]
    /\ UNCHANGED <<storage, shardLock, listening>>

\* update(key, f) through the guard: read the current value ...
ReadValue(w) ==
    /\ pc[w] = "read"
    /\ frame' = [frame EXCEPT ![w].val = get(storage[frame[w].task], CountKey)]
    /\ pc' = [pc EXCEPT ![w] = "write"]
    /\ UNCHANGED <<storage, shardLock, listening>>

\* ... and store the incremented value
WriteValue(w) ==
    /\ pc[w] = "write"
    /\ LET old == frame[w].val
           next == IF old = None THEN 1 ELSE old[1] + 1
       IN  storage' = [storage EXCEPT ![frame[w].task] =
                          update(@, CountKey, [f |-> "set", v |-> next])]
    /\ pc' = [pc EXCEPT ![w] = "held"]
    /\ UNCHANGED <<shardLock, frame, listening>>

\* the guard goes out of scope
DropGuard(w) ==
    /\ pc[w] = "held"
    /\ drop_guard(w, frame[w].task)
    /\ pc' = [pc EXCEPT ![w] = "done"]
    /\ UNCHANGED <<storage, frame, listening>>

PairOrder_as_given(key1, key2) == <<key1, key2>>

\* get_multiple_mut: the order in which the two locks are taken, a fixed
\* total order on the shards of the keys
PairOrder(key1, key2) ==
    IF ShardOf(key1) <= ShardOf(key2) THEN <<key1, key2>> ELSE <<key2, key1>>

\* a worker starts storage.access_pair_mut(key1, key2)
BeginPair(w) ==
    /\ pc[w] = "idle"
    /\ \E key1 \in LockTasks, key2 \in LockTasks :
          frame' = [frame EXCEPT ![w].op = "pair", ![w].key1 = key1, ![w].key2 = key2,
                                 ![w].task = PairOrder(key1, key2)[1],
                                 ![w].val = None, ![w].blockers = {}]
    /\ pc' = [pc EXCEPT ![w] = "pair_first"]
    /\ UNCHANGED <<storage, shardLock, listening>>

\* the first lock in the order is taken; keys of one shard share it
PairFirst(w) ==
    /\ pc[w] = "pair_first"
    /\ access_mut(w, frame[w].task)
    /\ pc' = [pc EXCEPT ![w] =
                 IF ShardOf(frame[w].key1) = ShardOf(frame[w].key2)
                 THEN "pair_insert" ELSE "pair_second"]
    /\ UNCHANGED <<frame, listening>>

\* the second lock is taken
PairSecond(w) ==
    /\ pc[w] = "pair_second"
    /\ access_mut(w, PairOrder(frame[w].key1, frame[w].key2)[2])
    /\ pc' = [pc EXCEPT ![w] = "pair_held"]
    /\ UNCHANGED <<frame, listening>>

\* both keys live in the shard already locked: the second entry is created
\* under the same lock
PairInsert(w) ==
    /\ pc[w] = "pair_insert"
    /\ storage' = EntryOrNew(storage, PairOrder(frame[w].key1, frame[w].key2)[2])
    /\ pc' = [pc EXCEPT ![w] = "pair_held"]
    /\ UNCHANGED <<shardLock, frame, listening>>

\* both guards go out of scope
DropPair(w) ==
    /\ pc[w] = "pair_held"
    /\ shardLock' = [s \in Shards |->
                        IF s \in {ShardOf(frame[w].key1), ShardOf(frame[w].key2)}
                        THEN 0 ELSE shardLock[s]]
    /\ pc' = [pc EXCEPT ![w] = "done"]
    /\ UNCHANGED <<storage, frame, listening>>

LockStep(w) ==
    \/ BeginIncrement(w)
    \/ AccessMut(w)
    \/ Park(w)
    \/ ReadValue(w)
    \/ WriteValue(w)
    \/ DropGuard(w)
    \/ BeginPair(w)
    \/ PairFirst(w)
    \/ PairSecond(w)
    \/ PairInsert(w)
    \/ DropPair(w)

LockNext == (\E w \in Workers : LockStep(w)) /\ UNCHANGED storeVars

LockSpec == LockInit /\ [][LockNext]_vars

\* the steps of a worker inside a call
Progress(w) ==
    \/ AccessMut(w)
    \/ ReadValue(w)
    \/ WriteValue(w)
    \/ DropGuard(w)
    \/ PairFirst(w)
    \/ PairSecond(w)
    \/ PairInsert(w)
    \/ DropPair(w)

\* a thread that can take its next step, or the lock it waits for, does so;
\* every worker makes one call
LockFairSpec ==
    LockSpec /\ \A w \in Workers : WF_vars(Progress(w) /\ UNCHANGED storeVars)

\* ------------------------------------------------------------------------
\* Properties of UpdateCellOperation::run
\* ------------------------------------------------------------------------
\* the pcs at which run holds the write guard of its task
Guarded == {"apply", "release", "decide", "gather", "drop"}

\* the pcs after the content write, guard still held
Written == {"release", "decide", "gather", "drop"}

\* the pcs at which run is over (short circuit, or the invalidation was called)
Over == {"return", "called"}

\* the call of thread t replaced a value by a different one
ChangedValue(t) ==
    /\ frame[t].content # None
    /\ frame[t].old_content # None
    /\ frame[t].old_content # frame[t].content

\* C1: a run that replaced the content of cell C of T by a different value
\* made an invalidation call, and the call's task set is exactly the tasks D
\* with a CellDependent {cell: C, task: D} record in T's store at the time of
\* the write, in the Plain and in the Indexed representation.
C1_ChangePropagation ==
    \A t \in Threads :
        pc[t] \in Over /\ ChangedValue(t) =>
            /\ pc[t] = "called"
            /\ frame[t].calls = 1
            /\ frame[t].dependent = frame[t].atWrite

C1_Witness ==
    \E t \in Threads :
        /\ pc[t] = "called"
        /\ ChangedValue(t)
        /\ is_indexed(storage[frame[t].task])
        /\ Cardinality(frame[t].dependent) = 2
        /\ \E c \in Cells \ {frame[t].cell} :
              DependentsOf(storage[frame[t].task], c) # {}

\* C2: a run with present content on a cell that had no CellData record, on a
\* task without a Dirty record, makes no invalidation call at all: it never
\* gets to gather dependents, even when the cell has dependents.
FirstValue(t) ==
    /\ frame[t].content # None
    /\ frame[t].old_content = None
    /\ ~frame[t].dirtyAtWrite

C2_ShortCircuit ==
    \A t \in Threads :
        FirstValue(t) =>
            /\ pc[t] \notin {"gather", "drop", "invalidate", "called"}
            /\ frame[t].calls = 0

C2_Witness ==
    \E t \in Threads :
        /\ pc[t] = "return"
        /\ FirstValue(t)
        /\ frame[t].atWrite # {}
        /\ frame[t].calls = 0

\* C3: once run is past its release step, the InProgressCell marker of
\* (T, C) is gone and no reader is blocked on its event any more, whatever
\* the new content is and before the short-circuit decision is taken.
C3_WaitersReleased ==
    \A t \in Threads :
        pc[t] \in {"decide", "gather", "drop"} =>
            /\ ~has_key(storage[frame[t].task], InProgressCellKey(frame[t].cell))
            /\ Waiters(frame[t].task, frame[t].cell) = {}
            /\ pc[t] = "decide" => \A r \in frame[t].woken : listening[r] = <<0, 0>>

C3_Witness ==
    \E t \in Threads :
        /\ pc[t] = "decide"
        /\ Cardinality(frame[t].woken) = 2
        /\ frame[t].content = None

\* C4: a thread that is at the invalidation call, or past it, does not hold
\* the write guard it took for the cell write.
C4_InvalidateAfterDrop ==
    \A t \in Threads :
        pc[t] \in {"invalidate", "called"} => ~HoldsGuard(t, frame[t].task)

C4_Witness ==
    \E t \in Threads, u \in Threads :
        /\ pc[t] = "invalidate"
        /\ pc[u] \in Written
        /\ frame[u].task = frame[t].task
        /\ HoldsGuard(u, frame[u].task)

\* C6: two runs on the same task never overlap between taking the guard and
\* dropping it; a run that has written still finds its own content in the
\* cell, and the dependents it gathered are those of the time of its write.
C6_CallsOrdered ==
    \A t \in Threads :
        /\ \A u \in Threads \ {t} :
              pc[t] \in Guarded /\ pc[u] \in Guarded => frame[t].task # frame[u].task
        /\ pc[t] \in Written =>
              get(storage[frame[t].task], CellDataKey(frame[t].cell)) = frame[t].content
        /\ pc[t] = "drop" => frame[t].dependent = frame[t].atWrite

C6_Witness ==
    \E t \in Threads, u \in Threads :
        /\ pc[t] = "gather"
        /\ pc[u] = "task"
        /\ frame[u].task = frame[t].task
        /\ frame[u].cell = frame[t].cell
        /\ frame[u].content # frame[t].content

\* thread t runs run(T, C, absent content) on a cell without CellData record
\* and holds T's guard
AbsentOnAbsent(t) ==
    /\ frame[t].content = None
    /\ \/ pc[t] = "apply" /\ ~has_key(storage[frame[t].task], CellDataKey(frame[t].cell))
       \/ pc[t] \in Written /\ frame[t].old_content = None

\* what a step does to T's records while such a call holds the guard: no
\* CellData record for C appears, the marker of C stays or goes, every other
\* record is as before
RecordsKept(t) ==
    AbsentOnAbsent(t) =>
        LET T == frame[t].task
            C == frame[t].cell
        IN  /\ get(storage'[T], CellDataKey(C)) = None
            /\ get(storage'[T], InProgressCellKey(C)) \in
                   {None, get(storage[T], InProgressCellKey(C))}
            /\ pc[t] = "release" => get(storage'[T], InProgressCellKey(C)) = None
            /\ \A k \in Keys \ {InProgressCellKey(C)} :
                   get(storage'[T], k) = get(storage[T], k)

\* such a call is over in the next state
AbsentOnAbsentOver(t) ==
    /\ pc'[t] \in Over
    /\ pc[t] \notin Over
    /\ frame'[t].content = None
    /\ frame'[t].old_content = None

\* C16 as stated: run(T, C, absent) on a cell without CellData record leaves
\* T without CellData record for C, changes no other record of T but the
\* marker of C, and invalidates no task, with or without a Dirty record.
C16_AbsentIsNoOp ==
    [][\A t \in Threads :
          /\ RecordsKept(t)
          /\ AbsentOnAbsentOver(t) =>
                 (pc'[t] = "called" => frame'[t].dependent = {})]_vars

\* C16, amended: the records are as stated; without a Dirty record the call
\* returns without an invalidation call; with a Dirty record it makes one
\* invalidation call for exactly the tasks with a CellDependent record for C.
C16_AbsentKeepsRecords ==
    [][\A t \in Threads :
          /\ RecordsKept(t)
          /\ AbsentOnAbsentOver(t) =>
                 IF frame'[t].dirtyAtWrite
                 THEN /\ pc'[t] = "called"
                      /\ frame'[t].calls = 1
                      /\ frame'[t].dependent = frame'[t].atWrite
                 ELSE /\ pc'[t] = "return"
                      /\ frame'[t].calls = 0]_vars

C16_Witness ==
    \E t \in Threads :
        /\ pc[t] = "called"
        /\ frame[t].content = None
        /\ frame[t].old_content = None
        /\ frame[t].dirtyAtWrite
        /\ frame[t].dependent # {}
        /\ is_indexed(storage[frame[t].task])

\* C17: a reader that was blocked on the marker of (T, C), was released by a
\* run(T, C, new) call and then read the cell through T's guard has read the
\* content of the latest write of the cell, which the releasing call or a
\* later call made; it has not read what the cell held before.
C17_ReleasedReaderSeesUpdate ==
    \A r \in Readers :
        Len(listening[r]) = 5 => listening[r][5] = listening[r][4]

C17_Witness ==
    \E r \in Readers, t \in Threads :
        /\ Len(listening[r]) = 5
        /\ pc[t] \in {"invalidate", "called"}
        /\ frame[t].cell = listening[r][2]
        /\ frame[t].old_content # None
        /\ frame[t].content # None
        /\ frame[t].old_content # frame[t].content
        /\ listening[r][5] = frame[t].content

\* the record under key k in the store of task u, None without a store
RecordAt(m, u, k) == IF u \in DOMAIN m THEN get(m[u], k) ELSE None

\* the tasks that have a store, or are given one by the step
StoredTasks == DOMAIN storage \cup DOMAIN storage'

\* the step is one of thread t's call, and it writes to the storage
StepOf(t) == pc'[t] # pc[t] /\ storage' # storage

\* the step writes the CellData record, or removes the marker, of the cell
\* of the call
OwnCellWrite(t, u, k) ==
    /\ u = frame[t].task
    /\ \/ pc[t] = "apply" /\ k = CellDataKey(frame[t].cell)
       \/ pc[t] = "release" /\ k = InProgressCellKey(frame[t].cell)

\* C21 as stated: no step of a run(T, C, _) call changes a record of any task
\* other than T's CellData record for C and T's InProgressCell record for C.
C21_OnlyOwnCell ==
    [][\A t \in Threads : StepOf(t) =>
          \A u \in StoredTasks, k \in Keys :
              \/ RecordAt(storage', u, k) = RecordAt(storage, u, k)
              \/ OwnCellWrite(t, u, k)]_vars

\* C21, amended: besides those two records a call changes only the Dirty
\* record of the tasks it invalidates, which the invalidation call sets; every
\* CellDependent record, the records of other cells, the Dirty record of a
\* task it does not invalidate and every other record of every task are the
\* same before and after.
C21_OwnCellAndDirtyOfDependents ==
    [][\A t \in Threads : StepOf(t) =>
          \A u \in StoredTasks, k \in Keys :
              \/ RecordAt(storage', u, k) = RecordAt(storage, u, k)
              \/ OwnCellWrite(t, u, k)
              \/ /\ pc[t] = "invalidate"
                 /\ k = DirtyKey
                 /\ u \in frame[t].dependent
                 /\ RecordAt(storage', u, k) = Some(0)]_vars

C21_Witness ==
    \E t \in Threads :
        /\ pc[t] = "called"
        /\ frame[t].content # None
        /\ frame[t].old_content # None
        /\ frame[t].dependent = {2}
        /\ has_key(storage[2], DirtyKey)
        /\ has_key(storage[frame[t].task], CellDependentKey(frame[t].cell, 2))
        /\ \E c \in Cells \ {frame[t].cell} :
               has_key(storage[frame[t].task], CellDependentKey(c, 1))
        /\ ~has_key(storage[frame[t].task], DirtyKey)

\* C20: a run that found a previous CellData record, or a Dirty record on the
\* task, ends with exactly one invalidation call, made with the tasks that had
\* a CellDependent record for the cell, for equal and different values, for
\* absent content and for an empty set.
C20_OneInvalidation ==
    \A t \in Threads :
        (pc[t] \in Over /\ (frame[t].old_content # None \/ frame[t].dirtyAtWrite)) =>
            /\ pc[t] = "called"
            /\ frame[t].calls = 1
            /\ frame[t].dependent = frame[t].atWrite

C20_Witness ==
    \E t \in Threads :
        /\ pc[t] = "called"
        /\ frame[t].content = None
        /\ frame[t].old_content # None
        /\ ~frame[t].dirtyAtWrite
        /\ frame[t].dependent = {}
        /\ frame[t].calls = 1

\* ------------------------------------------------------------------------
\* Properties of the write guards
\* ------------------------------------------------------------------------
\* the counter stored for a task, and the increments the workers applied
Counter(k) ==
    IF k \in DOMAIN storage /\ get(storage[k], CountKey) # None
    THEN get(storage[k], CountKey)[1] ELSE 0

\* the workers whose increment of the counter of task k has been applied
Applied(k) ==
    {w \in Workers : /\ frame[w].op = "increment"
                     /\ frame[w].task = k
                     /\ pc[w] \in {"held", "done"}}

\* C5: no two workers hold a write guard for the same task, and no increment
\* made through a guard is lost: the counter of every task equals the number
\* of increments applied to it, N after N workers incremented it once each.
C5_NoLostUpdate ==
    /\ \A w \in Workers : \A u \in Workers \ {w} : HeldTasks(w) \cap HeldTasks(u) = {}
    /\ \A k \in LockTasks : Counter(k) = Cardinality(Applied(k))

C5_Witness ==
    \E k \in LockTasks :
        /\ \A w \in Workers : pc[w] = "done"
        /\ Applied(k) = Workers
        /\ Counter(k) = NumWorkers

\* C7: a worker that called access_pair_mut gets its two guards, whatever
\* pairs the other workers ask for and in whatever order.
C7_PairCompletes ==
    \A w \in Workers : (pc[w] = "pair_first") ~> (pc[w] = "pair_held")

C7_Witness ==
    \E w \in Workers, u \in Workers :
        /\ pc[w] = "pair_held"
        /\ pc[u] = "pair_first"
        /\ frame[w].key1 # frame[w].key2
        /\ ShardOf(frame[w].key1) # ShardOf(frame[w].key2)
        /\ frame[u].key1 = frame[w].key2
        /\ frame[u].key2 = frame[w].key1

\* C8 as stated: access_mut(a) is only ever blocked by a guard for a itself.
C8_BlockedOnlyBySameTask ==
    \A w \in Workers :
        pc[w] = "parked" => frame[w].task \in frame[w].blockers

\* C8, amended: access_mut(a) is only ever blocked by a guard for a task of
\* the shard of a; while only guards of other shards are held it returns.
C8_BlockedOnlyWithinShard ==
    \A w \in Workers :
        pc[w] = "parked" =>
            \E b \in frame[w].blockers : ShardOf(b) = ShardOf(frame[w].task)

C8_Witness ==
    \E w \in Workers, u \in Workers :
        /\ pc[w] = "read"
        /\ pc[u] = "held"
        /\ frame[w].task # frame[u].task
        /\ ShardOf(frame[w].task) # ShardOf(frame[u].task)

\* ------------------------------------------------------------------------
\* Properties of InnerStorage
\* ------------------------------------------------------------------------
\* every pair of the bag is yielded once
YieldedOnce(bag) == \A p \in DOMAIN bag : bag[p] = 1

\* C9: on every call that converts the store from Plain to Indexed, the
\* converted store that the call's mutation is then applied to yields through
\* iter_all the same (key, value) pairs as the Plain store did, each once.
C9_ConversionPreserves ==
    [][~is_indexed(store) /\ is_indexed(store') =>
          LET converted == check_threshold(store)
          IN  /\ is_indexed(converted)
              /\ iter_all(converted) = iter_all(store)
              /\ YieldedOnce(iter_all(converted))
              /\ YieldedOnce(iter_all(store'))]_vars

C9_Witness ==
    /\ ret.conv
    /\ ret.op = "remove"
    /\ is_indexed(store)
    /\ Cardinality({i \in DOMAIN store.indexed : store.indexed[i] # EmptyMap}) >= 2

\* C10: in an Indexed store iter(i) yields exactly the records of the store
\* whose key has index i, and nothing for an index without records.
C10_IterByIndex ==
    ret.op = "iter" /\ is_indexed(store) =>
        ret.out = {p \in DOMAIN iter_all(store) : index(p[1]) = ret.val}

C10_Witness ==
    /\ ret.op = "iter"
    /\ is_indexed(store)
    /\ ret.out # {}
    /\ \E p \in DOMAIN iter_all(store) : index(p[1]) # ret.val

\* the calls C11 compares with the flat map
KeyedOps == {"add", "insert", "remove", "update", "get", "has_key", "has"}

\* C11: every add, insert, remove, update, get, has_key and has call returns
\* what the same call returns on one flat key-to-value map that was given the
\* same sequence of calls, and iter_all yields the records of that map, in
\* both representations and across the conversion.
C11_SameAsFlatMap ==
    /\ ret.op \in KeyedOps => ret.out = ret.ref
    /\ ret.op = "iter_all" => DOMAIN ret.out = ret.ref

C11_Witness ==
    /\ ret.op = "iter_all"
    /\ is_indexed(store)
    /\ Cardinality(DOMAIN ret.out) >= INDEX_THRESHOLD
    /\ DOMAIN ret.out = MapIter(flat)

\* C12: after insert(k, v) of an absent key k and then remove(k), get, has_key
\* and iter_all show what they showed before the insert, whether the store was
\* Plain, Indexed, or converted by that insert.
C12_InsertRemoveRoundTrip ==
    ret.undo # NoUndo => Observe(store) = ret.undo.pre

C12_Witness ==
    /\ ret.op = "remove"
    /\ ret.undo.rep = "Converted"
    /\ ret.out # None
    /\ is_indexed(store)

\* C13: a store that is Indexed is Indexed after every call, also after the
\* removals that take it below the threshold or empty it.
C13_IndexedStays ==
    [][is_indexed(store) => is_indexed(store')]_vars

C13_Witness ==
    /\ is_indexed(store)
    /\ RecordCount(store) = 0
    /\ ret.op = "remove"
    /\ ret.out # None

\* C14: update(key, f) calls f once, with the value the store held under key
\* (None when absent); afterwards the store holds f's result under key, no
\* record when f returned None, and every other key's record is as before.
C14_UpdateAppliesOnce ==
    ret.op = "update" =>
        /\ Len(ret.out) = 1
        /\ ret.out[1] = ret.pre.get[ret.key]
        /\ get(store, ret.key) = ApplyFn(ret.val, ret.out[1])
        /\ has_key(store, ret.key) = (ApplyFn(ret.val, ret.out[1]) # None)
        /\ \A k \in Keys \ {ret.key} : get(store, k) = ret.pre.get[k]

C14_Witness ==
    /\ ret.op = "update"
    /\ ret.val.f = "clear"
    /\ ret.out = << Some(1) >>
    /\ ~has_key(store, ret.key)
    /\ RecordCount(store) >= 2

\* C15 as stated: a Plain store holds fewer than INDEX_THRESHOLD records.
C15_PlainBelowThreshold ==
    ~is_indexed(store) => RecordCount(store) < INDEX_THRESHOLD

\* C15, amended: a Plain store holds at most INDEX_THRESHOLD records; the
\* call that stores record number INDEX_THRESHOLD leaves the store Plain, and
\* the next mutating call converts it.
C15_PlainAtMostThreshold ==
    ~is_indexed(store) => RecordCount(store) <= INDEX_THRESHOLD

C15_Witness ==
    /\ ~is_indexed(store)
    /\ RecordCount(store) = INDEX_THRESHOLD
    /\ ret.op = "add"
    /\ ret.out = TRUE

MutatingOps == {"add", "insert", "remove", "update"}

ReadOps == {"get", "has_key", "has", "iter", "iter_all"}

\* C18: every add, insert, remove and update called on a Plain store of at
\* least INDEX_THRESHOLD records leaves the store Indexed, also when the call
\* changes no record; get, has_key, has, iter and iter_all leave the
\* representation and the records as they are.
C18_ConvertsAtMutation ==
    [][/\ (/\ ret'.op \in MutatingOps
           /\ ~is_indexed(store)
           /\ RecordCount(store) >= INDEX_THRESHOLD) => is_indexed(store')
       /\ ret'.op \in ReadOps => store' = store]_vars

C18_Witness ==
    /\ ret.conv
    /\ ret.op = "add"
    /\ ret.out = FALSE
    /\ RecordCount(store) = INDEX_THRESHOLD

\* C19: update_count(task, key, delta) returns, leaves old + delta stored
\* under key (no record when that is 0; old is 0 for an absent record), and
\* returns TRUE exactly when old > 0 and old + delta > 0 differ.
C19_UpdateCount ==
    ret.op \in {"update_count", "panicked"} =>
        LET old == IF ret.pre = None THEN 0 ELSE ret.pre[1]
            sum == old + ret.val
        IN  /\ ret.op = "update_count"
            /\ ret.out = ((old > 0) # (sum > 0))
            /\ get(store, ret.key) = IF sum = 0 THEN None ELSE Some(sum)

\* C22: in an Indexed store every record lies in the bucket of the index of
\* its own key, and no key lies in two buckets; a bucket may be empty.
C22_BucketOfOwnIndex ==
    is_indexed(store) =>
        /\ \A i \in DOMAIN store.indexed :
              \A k \in DOMAIN store.indexed[i] : index(k) = i
        /\ \A i, j \in DOMAIN store.indexed :
              i # j => DOMAIN store.indexed[i] \cap DOMAIN store.indexed[j] = {}

C22_Witness ==
    /\ is_indexed(store)
    /\ ret.op = "update"
    /\ ~ret.conv
    /\ \E i \in DOMAIN store.indexed : store.indexed[i] = EmptyMap
    /\ \E i \in DOMAIN store.indexed : Cardinality(DOMAIN store.indexed[i]) >= 2
    /\ has_key(store, DirtyKey)

====
